---- MODULE Spec2Model ----
(***************************************************************************)
(* Model of the debugfs / procfs handle layer of rust/kernel/debugfs.rs    *)
(* and rust/kernel/proc_fs.rs: DebugFsDirectory, DebugFsFile<T> and        *)
(* ProcDirEntry<T>, their constructors and their Drop implementations,     *)
(* run against a host (the C side of debugfs/procfs) that keeps the tree   *)
(* of dentries and the i_private slot of every inode.                      *)
(***************************************************************************)
EXTENDS Integers, Sequences, FiniteSets, TLC

\* Bounds of the model.
MaxNodes == 3        \* host entries (dentries, proc_dir_entries) ever created
MaxPayloads == 2     \* payload values ever handed to a file constructor
MaxFiles == 2        \* typed files ever created in the payload-binding model
MaxCursors == 2      \* read sessions (cursors) ever started on the token file
MaxNexts == 4        \* calls of next made on one cursor
MaxOldReads == 4     \* reads of the old sample's device in one run
MaxReaders == 2      \* threads reading the misc device concurrently
MaxReads == 3        \* reads of the misc device started in one run
MaxThreads == 2      \* threads calling the token device concurrently
MaxCalls == 5        \* calls of the token device started in one run

\* const MAX_TOKENS: usize = 3;
MAX_TOKENS == 3

\* ptr::null_mut(): the null dentry / the None of Option<*mut dentry>.
null_mut == 0

VARIABLES
    node,            \* host side: Seq of entries, indexed by the pointer the host returned
    handle,          \* Rust side: Seq of handles; handle[n] is the one create returned for node[n]
    payload,         \* Seq of payload values `data: T`, one per file-constructor call
    rmCalls,         \* debugfs_remove_with_callback calls issued so far: [by, on]
    rmSeq,           \* entries the host has removed, in order: [n, by]
    last             \* the last operation: what was called, what it returned, and
                     \* whether it handed the host a dentry the host had removed

vars == <<node, handle, payload, rmCalls, rmSeq, last>>

\* The payload binding of DebugFsFile<T> (erase at create, narrow at open).
VARIABLES
    heap,            \* Seq of allocations: [word, meta, freed]; a pointer is an index
    dfile,           \* Seq of typed files: what create was given and what the host keeps
    opened           \* what the last open got back from OpenAdapter::convert

openVars == <<heap, dfile, opened>>

\* The seq_file view of the token sample (SeqOperations for Token).
VARIABLES
    token_count,     \* SharedStateInner::token_count
    cursor,          \* Seq of cursors handed out by start: the Box<(usize, usize)>,
                     \* how many times next was called on it, and what the most
                     \* recent start/next answered
    seq_ret          \* the last SeqOperations call and what it returned

seqVars == <<token_count, cursor, seq_ret>>

\* The counter sample that came before the token sample (rust_seq_file_old.rs).
VARIABLES
    old_count,       \* State(Mutex<u32>): how many times the device was read,
                     \* as two 16-bit halves [hi, lo]
    old_run,         \* reads made in this run, and whether one of them panicked
    old_start        \* what the last State::start returned

oldVars == <<old_count, old_run, old_start>>

\* The debugfs sample module (samples/rust/rust_debugfs.rs).
VARIABLE
    sample           \* one record for the module: rust_miscdev, shared, reader,
                     \* dbg and tally, each described below

sampleVars == <<sample>>

\* The token device of the seq_file sample under concurrent calls.
VARIABLE
    tok              \* one record: token_count, mutex, waitq, th and tally, each
                     \* described below

tokVars == <<tok>>

\* init's position and what it holds: pc, the handles bound to debugfs_dir and
\* _debugfs_file (0: not bound), and whether _dev is registered.
rust_miscdev == sample.rust_miscdev
\* SharedState: inner.read_count and who holds inner's mutex (0: nobody).
shared == sample.shared
\* reader[t]: where thread t stands in Token::read, and the value it loaded
\* for `+= 1`.
reader == sample.reader
\* The thread reading the debugfs file: position, offset, the value it took,
\* its result, and the history bounds taken at its start and at the snapshot.
dbg == sample.dbg
\* History: reads of the misc device started and completed.
tally == sample.tally

Nodes == 1..Len(node)
Handles == 1..Len(handle)
Payloads == 1..Len(payload)

----------------------------------------------------------------------------
\* Handles.

IsDir(h) == handle[h].type = "dir"
IsFile(h) == handle[h].type = "file"
IsProc(h) == handle[h].type = "proc"

\* Mutant: a handle can still be used after its drop.
LiveDirs_any == {h \in Handles : IsDir(h)}

\* A handle the program still owns (not yet dropped) that can be borrowed as
\* `parent: Option<&mut DebugFsDirectory>`.
LiveDirs == {h \in Handles : IsDir(h) /\ handle[h].live}

\* Whether create was given Some(parent): DebugFsDirectory keeps it in
\* has_parent, DebugFsFile as dentry == None.
CreatedWithParent(h) ==
    CASE IsDir(h) -> handle[h].has_parent
      [] IsFile(h) -> handle[h].dentry = null_mut
      [] OTHER -> FALSE

----------------------------------------------------------------------------
\* Payload binding: Box<Box<dyn Any>> / PointerWrapper.

\* PointerWrapper::from_pointer(ptr) bound to `_` (or passed to drop): the box
\* is recovered from the raw pointer and destroyed at once.
from_pointer(pl, p) ==
    [pl EXCEPT ![p].recovered = @ + 1, ![p].drops = @ + 1, ![p].owner = "dropped"]

\* drop_i_private: recover the payload of dentry n unless i_private is null.
drop_i_private(pl, nd, n) ==
    IF nd[n].i_private # null_mut THEN from_pointer(pl, nd[n].i_private) ELSE pl

----------------------------------------------------------------------------
\* Host side (fs/debugfs, fs/proc).

\* A dentry pointer the host has already removed (a dangling pointer).
Removed(nd, ptr) == ptr # null_mut /\ ~nd[ptr].present

PresentDirs(nd) == {q \in 1..Len(nd) : nd[q].kind = "dir" /\ nd[q].present}

\* What the host can answer to debugfs_create_dir / debugfs_create_file called
\* with parent_ptr: an error pointer, or a new dentry linked at `at`. A parent
\* pointer whose dentry was already removed is a dangling pointer: the call is
\* undefined, and may fail, link the new dentry below the freed one, or link it
\* below whatever directory now lives at that address.
host_create_outcomes(nd, parent_ptr) ==
    {[ok |-> FALSE, at |-> null_mut]} \cup
    IF parent_ptr = null_mut THEN {[ok |-> TRUE, at |-> null_mut]}
    ELSE IF nd[parent_ptr].present THEN {[ok |-> TRUE, at |-> parent_ptr]}
    ELSE {[ok |-> TRUE, at |-> q] : q \in PresentDirs(nd) \cup {parent_ptr}}

Children(nd, d) == {c \in 1..Len(nd) : nd[c].d_parent = d /\ nd[c].present}

RECURSIVE Subtree(_, _)
Subtree(nd, d) == {d} \cup UNION {Subtree(nd, c) : c \in Children(nd, d)}

\* The orders in which a recursive removal may visit the subtree of d: every
\* entry after all the entries below it.
RECURSIVE PostOrders(_, _)
PostOrders(nd, S) ==
    IF S = {} THEN {<<>>}
    ELSE UNION {{<<x>> \o t : t \in PostOrders(nd, S \ {x})} :
                  x \in {y \in S : \A c \in S : nd[c].d_parent # y}}

RemovalOrders(nd, d) == PostOrders(nd, Subtree(nd, d))

\* debugfs_remove_one_with_callback(dentry, drop_i_private): the host unlinks
\* one dentry and hands it to the callback. st = [node, payload, rmSeq].
debugfs_remove_one_with_callback(st, n, by) ==
    [node |-> [st.node EXCEPT ![n].present = FALSE, ![n].removed = @ + 1],
     payload |-> drop_i_private(st.payload, st.node, n),
     rmSeq |-> Append(st.rmSeq, [n |-> n, by |-> by])]

\* Mutant: the callback destroys the payload without having the host unlink
\* the dentry (drop_i_private handed over as the removal callback).
remove_rust_dentry_droponly(st, n, by) ==
    [st EXCEPT !.payload = drop_i_private(st.payload, st.node, n)]

\* remove_rust_dentry: the callback the Drop impls hand to the host.
remove_rust_dentry(st, n, by) == debugfs_remove_one_with_callback(st, n, by)

RECURSIVE RemoveEach(_, _, _)
RemoveEach(st, order, by) ==
    IF order = <<>> THEN st
    ELSE RemoveEach(remove_rust_dentry(st, Head(order), by), Tail(order), by)

\* debugfs_remove_with_callback(dentry, remove_rust_dentry): the host walks the
\* subtree of dentry in `order` and calls the callback on every entry.
debugfs_remove_with_callback(st, dentry, order, by) == RemoveEach(st, order, by)

----------------------------------------------------------------------------
\* No directory, file or /proc entry has been created yet.
InitDebugFs ==
    /\ node = <<>>
    /\ handle = <<>>
    /\ payload = <<>>
    /\ rmCalls = <<>>
    /\ rmSeq = <<>>
    /\ last = [op |-> "init", res |-> "Ok", stale |-> FALSE]

\* No typed file has been created or opened yet.
InitOpenVars ==
    /\ heap = <<>>
    /\ dfile = <<>>
    /\ opened = [f |-> 0, res |-> "none", val |-> 0]

\* SharedState::try_new of the token sample: token_count: 0; no read session.
InitSeqVars ==
    /\ token_count = 0
    /\ cursor = <<>>
    /\ seq_ret = [op |-> "none", c |-> 0, some |-> FALSE, item |-> 0]

\* The old sample before any read of this run and before any start.
InitOldRun ==
    /\ old_run = [reads |-> 0, panicked |-> FALSE]
    /\ old_start = [res |-> "none", of |-> [hi |-> 0, lo |-> 0], template |-> "none",
                    digits |-> <<>>, len |-> 0, reserved |-> 0,
                    items |-> [hi |-> 0, lo |-> 0]]

\* The debugfs sample before its init has run: SharedStateInner { read_count: 0 }.
InitSampleVars ==
    /\ sample = [rust_miscdev |-> [pc |-> "state", debugfs_dir |-> 0,
                                   debugfs_file |-> 0, dev |-> FALSE],
                 shared |-> [read_count |-> 0, mutex |-> 0],
                 reader |-> [t \in 1..MaxReaders |-> [pc |-> "idle", tmp |-> 0]],
                 dbg |-> [pc |-> "idle", offset |-> 0, lo |-> 0, val |-> 0, hi |-> 0,
                          res |-> "none", len |-> 0],
                 tally |-> [started |-> 0, completed |-> 0]]

\* SharedState::try_new of the token sample: token_count: 0, nobody in a call.
InitTokVars ==
    /\ tok = [token_count |-> 0, mutex |-> 0, waitq |-> {},
              th |-> [t \in 1..MaxThreads |-> [pc |-> "idle", op |-> "none", sig |-> FALSE]],
              ret |-> [op |-> "none", empty |-> FALSE, offset |-> 0, res |-> "none",
                       n |-> 0],
              tally |-> [calls |-> 0, writes_ok |-> 0, reads_ok |-> 0]]

\* Each specification below runs one part of the program and leaves the
\* variables of the other parts at this value throughout.
Unused == "unused"

UnusedDebugFs ==
    /\ node = Unused /\ handle = Unused /\ payload = Unused
    /\ rmCalls = Unused /\ rmSeq = Unused /\ last = Unused
UnusedOpen == heap = Unused /\ dfile = Unused /\ opened = Unused
UnusedSeq == token_count = Unused /\ cursor = Unused /\ seq_ret = Unused
UnusedOld == old_count = Unused /\ old_run = Unused /\ old_start = Unused
UnusedSample == sample = Unused
UnusedTok == tok = Unused

\* The handle layer on its own.
Init == InitDebugFs /\ UnusedOpen /\ UnusedSeq /\ UnusedOld /\ UnusedSample /\ UnusedTok

\* Mutant: the parent's dentry is never passed on (always the debugfs root).
ParentPtr_root(parent) == null_mut

\* The `parent.map(|p| p.dentry).unwrap_or_else(ptr::null_mut)` of both creates.
ParentPtr(parent) == IF parent = 0 THEN null_mut ELSE handle[parent].dentry

\* Mutant: the error pointer is not checked (no `?`): the handle is built around
\* whatever the host returned, although the error is reported.
DebugFsDirectory_create_unchecked(parent, out) ==
    LET has_parent == parent # 0
        parent_ptr == IF parent = 0 THEN null_mut ELSE handle[parent].dentry
        n == Len(node) + 1
    IN /\ out \in host_create_outcomes(node, parent_ptr)
       /\ n <= MaxNodes
       /\ node' = Append(node, [kind |-> "dir", d_parent |-> out.at,
                                i_private |-> null_mut, present |-> out.ok,
                                removed |-> 0, born |-> Len(rmSeq),
                                asked |-> parent_ptr])
       /\ handle' = Append(handle, [type |-> "dir", dentry |-> n,
                                    has_parent |-> has_parent, live |-> TRUE])
       /\ last' = [op |-> "DebugFsDirectory::create",
                   res |-> IF out.ok THEN "Ok" ELSE "Err",
                   stale |-> Removed(node, parent_ptr)]
       /\ UNCHANGED <<payload, rmCalls, rmSeq>>

\* DebugFsDirectory::create(name, parent); parent = 0 stands for None.
DebugFsDirectory_create(parent, out) ==
    LET has_parent == parent # 0
        parent_ptr == ParentPtr(parent)
        n == Len(node) + 1
    IN /\ out \in host_create_outcomes(node, parent_ptr)
       /\ out.ok => n <= MaxNodes
       /\ IF out.ok
          THEN /\ node' = Append(node, [kind |-> "dir", d_parent |-> out.at,
                                        i_private |-> null_mut, present |-> TRUE,
                                        removed |-> 0, born |-> Len(rmSeq),
                                        asked |-> parent_ptr])
               /\ handle' = Append(handle, [type |-> "dir", dentry |-> n,
                                            has_parent |-> has_parent, live |-> TRUE])
               /\ last' = [op |-> "DebugFsDirectory::create", res |-> "Ok",
                           stale |-> Removed(node, parent_ptr)]
          ELSE /\ UNCHANGED <<node, handle>>
               /\ last' = [op |-> "DebugFsDirectory::create", res |-> "Err",
                           stale |-> Removed(node, parent_ptr)]
       /\ UNCHANGED <<payload, rmCalls, rmSeq>>

DirCreate ==
    \E parent \in {0} \cup LiveDirs :
        \E out \in host_create_outcomes(node, ParentPtr(parent)) :
            DebugFsDirectory_create(parent, out)

\* Mutant: the test inverted (`if self.has_parent`).
DirectoryDropRemoves_inverted(hrec) == hrec.has_parent

\* The test of Drop for DebugFsDirectory: does this drop call the host?
DirectoryDropRemoves(hrec) == ~hrec.has_parent

\* Mutant: the drop removes its own dentry only, not the entries below it.
DirectoryDropCall_one(st, dentry, order, by) == remove_rust_dentry(st, dentry, by)

\* The host call of Drop for DebugFsDirectory:
\* debugfs_remove_with_callback(self.dentry, Some(remove_rust_dentry)).
DirectoryDropCall(st, dentry, order, by) ==
    debugfs_remove_with_callback(st, dentry, order, by)

\* Drop for DebugFsDirectory.
DebugFsDirectory_drop(h, order) ==
    LET hrec == handle[h]
        st == [node |-> node, payload |-> payload, rmSeq |-> rmSeq]
    IN /\ handle' = [handle EXCEPT ![h].live = FALSE]
       /\ IF DirectoryDropRemoves(hrec)
          THEN LET st2 == DirectoryDropCall(st, hrec.dentry, order, h)
               IN /\ node' = st2.node
                  /\ payload' = st2.payload
                  /\ rmSeq' = st2.rmSeq
                  /\ rmCalls' = Append(rmCalls, [by |-> h, on |-> hrec.dentry])
          ELSE UNCHANGED <<node, payload, rmSeq, rmCalls>>
       /\ last' = [op |-> "DebugFsDirectory::drop", res |-> "Ok",
                   stale |-> DirectoryDropRemoves(hrec) /\ Removed(node, hrec.dentry)]

DirDrop ==
    \E h \in LiveDirs :
        \E order \in (IF DirectoryDropRemoves(handle[h])
                      THEN RemovalOrders(node, handle[h].dentry) ELSE {<<>>}) :
            DebugFsDirectory_drop(h, order)

----------------------------------------------------------------------------
\* DebugFsFile<T>.

\* Mutant: a failed boxing hands the value back instead of destroying it.
ErasePayload_returned(a1, a2) ==
    IF a1 /\ a2
    THEN [owner |-> "raw", erased |-> TRUE, recovered |-> 0, drops |-> 0,
          outcome |-> "erased", via |-> "debugfs", host_called |-> FALSE]
    ELSE [owner |-> "caller", erased |-> FALSE, recovered |-> 0, drops |-> 0,
          outcome |-> "oom", via |-> "debugfs", host_called |-> FALSE]

\* `Box::try_new(data)?` followed by `Box::try_new(boxed1)?` and into_pointer:
\* the payload as it stands after the two boxings, a1 and a2 telling whether
\* each allocation succeeded. Box::try_new takes its argument by value, so a
\* failed allocation destroys the value it was given (data, or boxed1 and the
\* data in it) before `?` returns the error.
ErasePayload(a1, a2) ==
    IF a1 /\ a2
    THEN [owner |-> "raw", erased |-> TRUE, recovered |-> 0, drops |-> 0,
          outcome |-> "erased", via |-> "debugfs", host_called |-> FALSE]
    ELSE [owner |-> "dropped", erased |-> FALSE, recovered |-> 0, drops |-> 1,
          outcome |-> "oom", via |-> "debugfs", host_called |-> FALSE]

\* Mutant: the Err(err) arm returns the error without recovering the pointer.
CreateErrRecover_leak(pl, p) == pl

\* The Err(err) arm of DebugFsFile::create: the raw pointer is turned back into
\* its box, which is dropped.
CreateErrRecover(pl, p) == from_pointer(pl, p)

\* Mutant: the handle keeps its dentry also when a parent was given, so its
\* drop removes the file.
DebugFsFile_create_keeps_dentry(parent, a1, a2, out) ==
    LET has_parent == parent # 0
        parent_ptr == ParentPtr(parent)
        p == Len(payload) + 1
        n == Len(node) + 1
        boxed == Append(payload, ErasePayload(a1, a2))
    IN /\ p <= MaxPayloads
       /\ UNCHANGED <<rmCalls, rmSeq>>
       /\ IF ~boxed[p].erased
          THEN /\ out = [ok |-> FALSE, at |-> null_mut]
               /\ payload' = boxed
               /\ UNCHANGED <<node, handle>>
               /\ last' = [op |-> "DebugFsFile::create", res |-> "ENOMEM",
                           stale |-> FALSE]
          ELSE /\ out \in host_create_outcomes(node, parent_ptr)
               /\ out.ok => n <= MaxNodes
               /\ IF out.ok
                  THEN /\ node' = Append(node, [kind |-> "file", d_parent |-> out.at,
                                                i_private |-> p, present |-> TRUE,
                                                removed |-> 0, born |-> Len(rmSeq),
                                                asked |-> parent_ptr])
                       /\ handle' = Append(handle,
                              [type |-> "file",
                               dentry |-> n,
                               live |-> TRUE])
                       /\ payload' = [boxed EXCEPT ![p].outcome = "created",
                                                 ![p].host_called = TRUE]
                       /\ last' = [op |-> "DebugFsFile::create", res |-> "Ok",
                                   stale |-> Removed(node, parent_ptr)]
                  ELSE /\ payload' = CreateErrRecover(
                                        [boxed EXCEPT ![p].outcome = "rejected",
                                                      ![p].host_called = TRUE], p)
                       /\ UNCHANGED <<node, handle>>
                       /\ last' = [op |-> "DebugFsFile::create", res |-> "Err",
                                   stale |-> Removed(node, parent_ptr)]

\* DebugFsFile::create(name, parent, data, fops); parent = 0 stands for None.
DebugFsFile_create(parent, a1, a2, out) ==
    LET has_parent == parent # 0
        parent_ptr == ParentPtr(parent)
        p == Len(payload) + 1
        n == Len(node) + 1
        boxed == Append(payload, ErasePayload(a1, a2))
    IN /\ p <= MaxPayloads
       /\ UNCHANGED <<rmCalls, rmSeq>>
       /\ IF ~boxed[p].erased
          THEN /\ out = [ok |-> FALSE, at |-> null_mut]
               /\ payload' = boxed
               /\ UNCHANGED <<node, handle>>
               /\ last' = [op |-> "DebugFsFile::create", res |-> "ENOMEM",
                           stale |-> FALSE]
          ELSE /\ out \in host_create_outcomes(node, parent_ptr)
               /\ out.ok => n <= MaxNodes
               /\ IF out.ok
                  THEN /\ node' = Append(node, [kind |-> "file", d_parent |-> out.at,
                                                i_private |-> p, present |-> TRUE,
                                                removed |-> 0, born |-> Len(rmSeq),
                                                asked |-> parent_ptr])
                       /\ handle' = Append(handle,
                              [type |-> "file",
                               dentry |-> IF has_parent THEN null_mut ELSE n,
                               live |-> TRUE])
                       /\ payload' = [boxed EXCEPT ![p].outcome = "created",
                                                 ![p].host_called = TRUE]
                       /\ last' = [op |-> "DebugFsFile::create", res |-> "Ok",
                                   stale |-> Removed(node, parent_ptr)]
                  ELSE /\ payload' = CreateErrRecover(
                                        [boxed EXCEPT ![p].outcome = "rejected",
                                                      ![p].host_called = TRUE], p)
                       /\ UNCHANGED <<node, handle>>
                       /\ last' = [op |-> "DebugFsFile::create", res |-> "Err",
                                   stale |-> Removed(node, parent_ptr)]

\* debugfs_create::<T>(name, parent, data): DebugFsFile::create with the
\* vtable built for T.
debugfs_create(parent, a1, a2, out) == DebugFsFile_create(parent, a1, a2, out)

FileCreate ==
    \E parent \in {0} \cup LiveDirs, a1, a2 \in BOOLEAN :
        \E out \in host_create_outcomes(node, ParentPtr(parent)) :
            debugfs_create(parent, a1, a2, out)

\* Mutant: the drop never calls the host.
FileDropRemoves_never(hrec) == FALSE

\* The test of Drop for DebugFsFile: `if let Some(dentry) = self.dentry`.
FileDropRemoves(hrec) == hrec.dentry # null_mut

\* Drop for DebugFsFile<T>.
DebugFsFile_drop(h, order) ==
    LET hrec == handle[h]
        st == [node |-> node, payload |-> payload, rmSeq |-> rmSeq]
    IN /\ handle' = [handle EXCEPT ![h].live = FALSE]
       /\ IF FileDropRemoves(hrec)
          THEN LET st2 == debugfs_remove_with_callback(st, hrec.dentry, order, h)
               IN /\ node' = st2.node
                  /\ payload' = st2.payload
                  /\ rmSeq' = st2.rmSeq
                  /\ rmCalls' = Append(rmCalls, [by |-> h, on |-> hrec.dentry])
          ELSE UNCHANGED <<node, payload, rmSeq, rmCalls>>
       /\ last' = [op |-> "DebugFsFile::drop", res |-> "Ok",
                   stale |-> FileDropRemoves(hrec) /\ Removed(node, hrec.dentry)]

FileDrop ==
    \E h \in {f \in Handles : IsFile(f) /\ handle[f].live} :
        \E order \in (IF FileDropRemoves(handle[h])
                      THEN RemovalOrders(node, handle[h].dentry) ELSE {<<>>}) :
            DebugFsFile_drop(h, order)

----------------------------------------------------------------------------
\* ProcDirEntry<T>.

\* proc_remove(entry): the host removes the /proc entry.
proc_remove(st, n, by) ==
    [node |-> [st.node EXCEPT ![n].present = FALSE, ![n].removed = @ + 1],
     payload |-> st.payload,
     rmSeq |-> Append(st.rmSeq, [n |-> n, by |-> by])]

\* The null branch of new_seq_private: `drop(unsafe { T::from_pointer(data) })`.
ProcNullRecover(pl, p) == from_pointer(pl, p)

\* ProcDirEntry::new_seq_private::<S>(name, data); hostOk tells whether
\* proc_create_seq_private returned an entry rather than null.
ProcDirEntry_new_seq_private(hostOk) ==
    LET p == Len(payload) + 1
        n == Len(node) + 1
        raw == Append(payload, [owner |-> "raw", erased |-> TRUE, recovered |-> 0,
                                drops |-> 0, outcome |-> "erased", via |-> "proc",
                                host_called |-> TRUE])
    IN /\ p <= MaxPayloads
       /\ hostOk => n <= MaxNodes
       /\ UNCHANGED <<rmCalls, rmSeq>>
       /\ IF hostOk
          THEN /\ node' = Append(node, [kind |-> "proc", d_parent |-> null_mut,
                                        i_private |-> p, present |-> TRUE,
                                        removed |-> 0, born |-> Len(rmSeq),
                                        asked |-> null_mut])
               /\ handle' = Append(handle, [type |-> "proc", proc_dir_entry |-> n,
                                            data |-> p, live |-> TRUE])
               /\ payload' = [raw EXCEPT ![p].outcome = "created"]
               /\ last' = [op |-> "ProcDirEntry::new_seq_private", res |-> "Ok",
                           stale |-> FALSE]
          ELSE /\ payload' = ProcNullRecover([raw EXCEPT ![p].outcome = "rejected"], p)
               /\ UNCHANGED <<node, handle>>
               /\ last' = [op |-> "ProcDirEntry::new_seq_private", res |-> "ENOMEM",
                           stale |-> FALSE]

ProcCreate == \E hostOk \in BOOLEAN : ProcDirEntry_new_seq_private(hostOk)

\* Drop for ProcDirEntry<T>: proc_remove, then drop(T::from_pointer(self.data)).
ProcDirEntry_drop(h) ==
    LET hrec == handle[h]
        st == proc_remove([node |-> node, payload |-> payload, rmSeq |-> rmSeq],
                          hrec.proc_dir_entry, h)
    IN /\ handle' = [handle EXCEPT ![h].live = FALSE]
       /\ node' = st.node
       /\ rmSeq' = st.rmSeq
       /\ payload' = from_pointer(st.payload, hrec.data)
       /\ last' = [op |-> "ProcDirEntry::drop", res |-> "Ok",
                   stale |-> Removed(node, hrec.proc_dir_entry)]
       /\ UNCHANGED rmCalls

ProcDrop == \E h \in {f \in Handles : IsProc(f) /\ handle[f].live} : ProcDirEntry_drop(h)

----------------------------------------------------------------------------
\* The payload binding: DebugFsFile::create erases `data: T` into a
\* Box<Box<dyn Any>> kept in i_private; the open callback of the file's vtable
\* narrows it back with OpenAdapter::convert.

\* TypeId::of::<T>() of the payload types, and the payload values.
TypeIds == {1, 2}
Values == {101, 102}

DFiles == 1..Len(dfile)

\* Box::try_new(x): a new allocation holding x; the box is its address.
Box_try_new(hp, word, meta) == Append(hp, [word |-> word, meta |-> meta, freed |-> 0])

\* `Box::try_new(data)` as Box<dyn Any>, boxed again, into_pointer (lines
\* 111-113): the inner box is a fat pointer (address of the data, vtable of T),
\* the outer box holds that fat pointer; i_private is the outer address.
Erase(hp, T, v) ==
    LET boxed1 == Box_try_new(hp, v, 0)
    IN Box_try_new(boxed1, Len(boxed1), T)

\* Mutant: the pointer is borrowed as if it were the inner box, so the outer
\* allocation is taken for the data.
Borrow_thin(hp, p) == [addr |-> p, type_id |-> hp[p].meta]

\* <Box<Box<dyn Any>> as PointerWrapper>::borrow(p).as_ref(): the &dyn Any.
Borrow(hp, p) == [addr |-> hp[p].word, type_id |-> hp[p].meta]

\* Mutant: the reference is reinterpreted as &T without asking for its type.
downcast_ref_unchecked(hp, any, T) == [some |-> TRUE, val |-> hp[any.addr].word]

\* <dyn Any>::downcast_ref::<T>(): Some(&T) iff the value's TypeId is T's.
downcast_ref(hp, any, T) ==
    IF any.type_id = T THEN [some |-> TRUE, val |-> hp[any.addr].word]
    ELSE [some |-> FALSE, val |-> 0]

\* from_pointer on i_private and the drop of the Box<Box<dyn Any>> it gives:
\* both allocations are freed.
Recover(hp, p) ==
    [hp EXCEPT ![p].freed = @ + 1, ![hp[p].word].freed = @ + 1]

\* OpenAdapter::<T>::convert(inode, file) for a DebugFsFile<T>.
OpenAdapter_convert(T, i_private) ==
    LET data == Borrow(heap, i_private)
        open_data == downcast_ref(heap, data, T)
    IN IF open_data.some THEN [res |-> "ref", val |-> open_data.val]
       ELSE [res |-> "panic", val |-> 0]

\* DebugFsFile::<D>::create(name, parent, data, fops), with fops the vtable
\* built over OpenAdapter<F>; hostOk is the answer of debugfs_create_file and
\* `via` the function that made the call.
DebugFsFile_create_fops(D, v, F, hostOk, via) ==
    LET erased == Erase(heap, D, v)
        data == Len(erased)
    IN /\ Len(dfile) < MaxFiles
       /\ heap' = IF hostOk THEN erased ELSE Recover(erased, data)
       /\ dfile' = Append(dfile, [given |-> [type_id |-> D, val |-> v], fops |-> F,
                                  i_private |-> data, via |-> via,
                                  state |-> IF hostOk THEN "present" ELSE "rejected"])
       /\ UNCHANGED opened

\* Mutant: the vtable is built over the adapter of another payload type.
debugfs_create_typed_foreign(D, v, hostOk) ==
    \E F \in TypeIds \ {D} : DebugFsFile_create_fops(D, v, F, hostOk, "debugfs_create")

\* debugfs_create::<T>(name, parent, data): data is T::OpenData and the vtable
\* is OperationsVtable::<DebugFsFile<T::OpenData>, T>.
debugfs_create_typed(D, v, hostOk) ==
    DebugFsFile_create_fops(D, v, D, hostOk, "debugfs_create")

TypedCreate ==
    \E D \in TypeIds, v \in Values, hostOk \in BOOLEAN : debugfs_create_typed(D, v, hostOk)

\* A crate-internal caller of the unsafe constructor with a vtable of its own.
RawCreate ==
    \E D \in TypeIds, v \in Values, F \in TypeIds, hostOk \in BOOLEAN :
        /\ F # D
        /\ DebugFsFile_create_fops(D, v, F, hostOk, "DebugFsFile::create")

\* The host opens the file: the vtable's open callback runs convert on the inode.
OpenFile(f) ==
    /\ dfile[f].state = "present"
    /\ opened' = [f |-> f] @@ OpenAdapter_convert(dfile[f].fops, dfile[f].i_private)
    /\ UNCHANGED <<heap, dfile>>

Open == \E f \in DFiles : OpenFile(f)

\* The host removes the entry and runs drop_i_private on it.
RemoveFile(f) ==
    /\ dfile[f].state = "present"
    /\ heap' = IF dfile[f].i_private # null_mut THEN Recover(heap, dfile[f].i_private)
               ELSE heap
    /\ dfile' = [dfile EXCEPT ![f].state = "removed"]
    /\ UNCHANGED opened

Remove == \E f \in DFiles : RemoveFile(f)

----------------------------------------------------------------------------
\* samples/rust/rust_seq_file.rs: the token counter and its seq_file cursor.

Cursors == 1..Len(cursor)

\* Token::write past its wait loop: one token more (the loop waits while the
\* count is MAX_TOKENS).
Token_write ==
    /\ token_count # MAX_TOKENS
    /\ token_count' = token_count + 1
    /\ UNCHANGED <<cursor, seq_ret>>

\* Token::read past its wait loop: one token consumed (the loop waits while the
\* count is 0).
Token_read ==
    /\ token_count # 0
    /\ token_count' = token_count - 1
    /\ UNCHANGED <<cursor, seq_ret>>

\* Mutant: a new session picks up the cursor of the session before it.
Token_start_resuming(total, allocOk) ==
    IF ~allocOk THEN [some |-> FALSE, it |-> <<0, 0>>]
    ELSE IF cursor = <<>> THEN [some |-> TRUE, it |-> <<total, 1>>]
    ELSE [some |-> TRUE, it |-> cursor[Len(cursor)].it]

\* start: Box::try_new((total, 1)).ok(), total the counter read under the lock.
Token_start(total, allocOk) ==
    IF allocOk THEN [some |-> TRUE, it |-> <<total, 1>>]
    ELSE [some |-> FALSE, it |-> <<0, 0>>]

\* next: false when total == current, else current += 1 and true.
Token_next(it) ==
    LET total == it[1]
        current == it[2]
    IN IF total = current THEN [ret |-> FALSE, it |-> it]
       ELSE [ret |-> TRUE, it |-> <<total, current + 1>>]

\* Mutant: the item test is total >= current.
Token_current_inclusive(it) ==
    IF it[1] >= it[2] THEN [some |-> TRUE, item |-> it[2]]
    ELSE [some |-> FALSE, item |-> 0]

\* current: Some(current) when total > current, else None.
Token_current(it) ==
    LET total == it[1]
        current == it[2]
    IN IF total > current THEN [some |-> TRUE, item |-> current]
       ELSE [some |-> FALSE, item |-> 0]

\* Mutant: reading the item also moves the cursor on (Iterator::next style).
CursorAfterCurrent_advancing(cs, c) == [cs EXCEPT ![c].it = <<@[1], @[2] + 1>>]

\* current takes `&Self::IteratorWrapper`: the cursor is left as it is.
CursorAfterCurrent(cs, c) == cs

\* Mutant: starting a session takes a token from the shared state.
SeqStart_consuming(allocOk) ==
    LET r == Token_start(token_count, allocOk)
    IN /\ Len(cursor) < MaxCursors
       /\ cursor' = IF r.some
                    THEN Append(cursor, [it |-> r.it, nexts |-> 0, after |-> "start"])
                    ELSE cursor
       /\ seq_ret' = [op |-> "start", c |-> IF r.some THEN Len(cursor) + 1 ELSE 0,
                      some |-> r.some, item |-> 0]
       /\ token_count' = IF token_count > 0 THEN token_count - 1 ELSE token_count

\* A read session starts: start is called on the shared state.
SeqStart(allocOk) ==
    LET r == Token_start(token_count, allocOk)
    IN /\ Len(cursor) < MaxCursors
       /\ cursor' = IF r.some
                    THEN Append(cursor, [it |-> r.it, nexts |-> 0, after |-> "start"])
                    ELSE cursor
       /\ seq_ret' = [op |-> "start", c |-> IF r.some THEN Len(cursor) + 1 ELSE 0,
                      some |-> r.some, item |-> 0]
       /\ UNCHANGED token_count

Start == \E allocOk \in BOOLEAN : SeqStart(allocOk)

\* Mutant: one position shared by all sessions (a cursor kept in the payload).
SeqNext_shared(c) ==
    LET r == Token_next(cursor[c].it)
    IN /\ cursor[c].nexts < MaxNexts
       /\ cursor' = [d \in Cursors |->
                        IF d = c THEN [it |-> r.it, nexts |-> cursor[c].nexts + 1,
                                       after |-> IF r.ret THEN "true" ELSE "false"]
                        ELSE [cursor[d] EXCEPT !.it = <<@[1], r.it[2]>>]]
       /\ seq_ret' = [op |-> "next", c |-> c, some |-> r.ret, item |-> 0]
       /\ UNCHANGED token_count

\* Mutant: next takes the total from the shared counter as it is now, not from
\* the cursor.
SeqNext_live(c) ==
    LET r == Token_next(<<token_count, cursor[c].it[2]>>)
    IN /\ cursor[c].nexts < MaxNexts
       /\ cursor' = [cursor EXCEPT ![c] = [it |-> r.it, nexts |-> @.nexts + 1,
                                           after |-> IF r.ret THEN "true" ELSE "false"]]
       /\ seq_ret' = [op |-> "next", c |-> c, some |-> r.ret, item |-> 0]
       /\ UNCHANGED token_count

\* next is called on cursor c. With overflow checks the increment of a usize
\* panics only at 2^64 - 1, far beyond MaxNexts calls.
SeqNext(c) ==
    LET r == Token_next(cursor[c].it)
    IN /\ cursor[c].nexts < MaxNexts
       /\ cursor' = [cursor EXCEPT ![c] = [it |-> r.it, nexts |-> @.nexts + 1,
                                           after |-> IF r.ret THEN "true" ELSE "false"]]
       /\ seq_ret' = [op |-> "next", c |-> c, some |-> r.ret, item |-> 0]
       /\ UNCHANGED token_count

Advance == \E c \in Cursors : SeqNext(c)

\* current is called on cursor c.
SeqCurrent(c) ==
    LET r == Token_current(cursor[c].it)
    IN /\ cursor' = CursorAfterCurrent(cursor, c)
       /\ seq_ret' = [op |-> "current", c |-> c, some |-> r.some, item |-> r.item]
       /\ UNCHANGED token_count

Current == \E c \in Cursors : SeqCurrent(c)

----------------------------------------------------------------------------
\* samples/rust/rust_seq_file_old.rs: the read counter and the message that
\* State::start renders from it.

\* const MAX_DIGITS: usize = 3; MAX_LENGTH = MAX_DIGITS + 1;
\* MAX_COUNT = 10u32.pow(MAX_DIGITS as u32) - 1.
MAX_DIGITS == 3
MAX_LENGTH == MAX_DIGITS + 1
MAX_COUNT == 10^MAX_DIGITS - 1

\* A u32 is kept as hi * 2^16 + lo, each half below 2^16.
Half == 2^16
U32Of(hi, lo) == [hi |-> hi, lo |-> lo]
U32_MAX == U32Of(Half - 1, Half - 1)

\* a <= n for a u32 a and a number n below 2^16.
U32LeqSmall(a, n) == a.hi = 0 /\ a.lo <= n

\* Counter values a run starts from: each is what so many earlier reads leave.
CounterSeeds ==
    {U32Of(0, 0), U32Of(0, 8), U32Of(0, 98), U32Of(0, 997), U32Of(Half - 1, Half - 3)}

\* a + 1 for a u32 below u32::MAX.
U32Succ(a) == IF a.lo + 1 < Half THEN U32Of(a.hi, a.lo + 1) ELSE U32Of(a.hi + 1, 0)

\* template.len() of the two templates (the string literals of lines 70, 72).
TemplateLen(template) == IF template = "this many times" THEN 46 ELSE 55

\* `{}` of a u32: its decimal digits, most significant first.
RECURSIVE Decimal(_)
Decimal(n) == IF n < 10 THEN <<n>> ELSE Append(Decimal(n \div 10), n % 10)

\* The number a digit string stands for.
RECURSIVE ValueOf(_)
ValueOf(ds) ==
    IF ds = <<>> THEN 0
    ELSE 10 * ValueOf(SubSeq(ds, 1, Len(ds) - 1)) + ds[Len(ds)]

\* Mutant: the count is written as it is (its low half where it is larger).
MessageCount_unclamped(count) == count.lo

\* let message_count = min(*count, MAX_COUNT);
MessageCount(count) == IF U32LeqSmall(count, MAX_COUNT) THEN count.lo ELSE MAX_COUNT

\* The template: "... opened this many times: " while *count <= MAX_COUNT,
\* "... opened at least this many times: " above.
Template(count) ==
    IF U32LeqSmall(count, MAX_COUNT) THEN "this many times"
    ELSE "at least this many times"

\* State::start with the counter at `count`: reserve template.len() +
\* MAX_LENGTH, push the template, writeln!("{}", message_count), and box
\* repeat(message).take(count).peekable(). allocOk: no allocation fails.
State_start(count, allocOk) ==
    LET template == Template(count)
        digits == Decimal(MessageCount(count))
    IN IF allocOk
       THEN [res |-> "Some", of |-> count, template |-> template, digits |-> digits,
             len |-> TemplateLen(template) + Len(digits) + 1,
             reserved |-> TemplateLen(template) + MAX_LENGTH,
             items |-> count]
       ELSE [res |-> "ENOMEM", of |-> count, template |-> "none", digits |-> <<>>,
             len |-> 0, reserved |-> 0, items |-> U32Of(0, 0)]

OldStart ==
    /\ ~old_run.panicked
    /\ \E allocOk \in BOOLEAN : old_start' = State_start(old_count, allocOk)
    /\ UNCHANGED <<old_count, old_run>>

\* Token::read of the old sample: *(shared.0.lock()) += 1. At u32::MAX the
\* addition overflows: a panic with overflow checks, a wrap to 0 without.
OldRead ==
    /\ ~old_run.panicked
    /\ old_run.reads < MaxOldReads
    /\ IF old_count # U32_MAX
       THEN /\ old_count' = U32Succ(old_count)
            /\ old_run' = [old_run EXCEPT !.reads = @ + 1]
       ELSE \E wraps \in BOOLEAN :
               /\ old_count' = IF wraps THEN U32Of(0, 0) ELSE old_count
               /\ old_run' = [reads |-> old_run.reads + 1, panicked |-> ~wraps]
    /\ UNCHANGED old_start

----------------------------------------------------------------------------
\* The debugfs sample module (samples/rust/rust_debugfs.rs): its init, its
\* exit, and the reads of its misc device and of its debugfs file.


Readers == 1..MaxReaders

\* Mutant: lock() returns a guard without waiting for the holder.
CanLock_unguarded(sh) == TRUE

\* Mutex::lock: the caller goes on only once nobody holds the mutex.
CanLock(sh) == sh.mutex = 0

\* init line 106: `let state = SharedState::try_new()?`.
SharedState_try_new(ok) ==
    /\ rust_miscdev.pc = "state"
    /\ sample' = [sample EXCEPT !.rust_miscdev.pc = IF ok THEN "dir_name" ELSE "failed"]
    /\ UNCHANGED vars

InitState == \E ok \in BOOLEAN : SharedState_try_new(ok)

\* init lines 107 and 109: `CString::try_from_fmt(..)?`. A failure at line 109
\* returns with debugfs_dir in scope.
CString_try_from_fmt(ok) ==
    /\ rust_miscdev.pc \in {"dir_name", "file_name"}
    /\ sample' = [sample EXCEPT !.rust_miscdev.pc =
                     IF rust_miscdev.pc = "dir_name"
                     THEN (IF ok THEN "dir" ELSE "failed")
                     ELSE (IF ok THEN "file" ELSE "unwind_dir")]
    /\ UNCHANGED vars

InitName == \E ok \in BOOLEAN : CString_try_from_fmt(ok)

\* init line 108: `let mut debugfs_dir = DebugFsDirectory::create(&dir_name, None)?`.
InitDir ==
    /\ rust_miscdev.pc = "dir"
    /\ \E out \in host_create_outcomes(node, null_mut) :
          /\ DebugFsDirectory_create(0, out)
          /\ sample' = IF out.ok
                       THEN [sample EXCEPT !.rust_miscdev.pc = "file_name",
                                           !.rust_miscdev.debugfs_dir = Len(handle) + 1]
                       ELSE [sample EXCEPT !.rust_miscdev.pc = "failed"]

\* init lines 110-111: `let _debugfs_file = debugfs_create::<DebugFsToken>(
\* &file_name, Some(&mut debugfs_dir), state.clone())?`.
InitFile ==
    /\ rust_miscdev.pc = "file"
    /\ \E a1, a2 \in BOOLEAN :
          \E out \in host_create_outcomes(node, ParentPtr(rust_miscdev.debugfs_dir)) :
              /\ debugfs_create(rust_miscdev.debugfs_dir, a1, a2, out)
              /\ sample' = IF a1 /\ a2 /\ out.ok
                           THEN [sample EXCEPT !.rust_miscdev.pc = "register",
                                               !.rust_miscdev.debugfs_file = Len(handle) + 1]
                           ELSE [sample EXCEPT !.rust_miscdev.pc = "unwind_dir"]

\* Mutant: a failed registration returns with the locals forgotten, not dropped.
RegisterFailed_forget == "failed"

\* Where init goes when `miscdev::Registration::new_pinned(..)?` fails: the
\* locals are dropped in reverse order of declaration, _debugfs_file first.
RegisterFailed == "unwind_file"

\* init line 114: `_dev: miscdev::Registration::new_pinned(fmt!("{name}"), state)?`.
Registration_new_pinned(ok) ==
    /\ rust_miscdev.pc = "register"
    /\ sample' = [sample EXCEPT !.rust_miscdev.pc = IF ok THEN "return" ELSE RegisterFailed,
                                !.rust_miscdev.dev = ok]
    /\ UNCHANGED vars

InitRegister == \E ok \in BOOLEAN : Registration_new_pinned(ok)

\* The end of init's scope, on return of Ok (line 117) and on the way out of a
\* failed registration alike: _debugfs_file is dropped.
InitDropFile ==
    /\ rust_miscdev.pc \in {"return", "unwind_file"}
    /\ DebugFsFile_drop(rust_miscdev.debugfs_file, <<>>)
    /\ sample' = [sample EXCEPT !.rust_miscdev.pc =
                     IF rust_miscdev.pc = "return" THEN "loaded" ELSE "unwind_dir"]

\* The drop of debugfs_dir: at the end of init's scope on a failure after line
\* 108, and as the field _debugfs_dir of RustMiscdev when the module goes.
SampleDropDir ==
    /\ rust_miscdev.pc \in {"unwind_dir", "exit_dir"}
    /\ \E order \in RemovalOrders(node, handle[rust_miscdev.debugfs_dir].dentry) :
          DebugFsDirectory_drop(rust_miscdev.debugfs_dir, order)
    /\ sample' = [sample EXCEPT !.rust_miscdev.pc =
                     IF rust_miscdev.pc = "unwind_dir" THEN "failed" ELSE "exited"]

\* Module exit: RustMiscdev is dropped, _dev first (lines 97-100). The host
\* unloads a module only when no file operation of it is running.
SampleExit ==
    /\ rust_miscdev.pc = "loaded"
    /\ \A t \in Readers : reader[t].pc = "idle"
    /\ dbg.pc = "idle"
    /\ sample' = [sample EXCEPT !.rust_miscdev.pc = "exit_dir", !.rust_miscdev.dev = FALSE]
    /\ UNCHANGED vars

\* Token::read is called (line 58): the thread is on its way to the lock.
Token_read_enter(t) ==
    /\ rust_miscdev.pc = "loaded"
    /\ reader[t].pc = "idle"
    /\ tally.started < MaxReads
    /\ sample' = [sample EXCEPT !.reader[t].pc = "lock", !.tally.started = @ + 1]
    /\ UNCHANGED vars

MiscEnter == \E t \in Readers : Token_read_enter(t)

\* Token::read line 64: `let mut inner = shared.inner.lock()`.
Token_read_lock(t) ==
    /\ reader[t].pc = "lock"
    /\ CanLock(shared)
    /\ sample' = [sample EXCEPT !.shared.mutex = t, !.reader[t].pc = "locked"]
    /\ UNCHANGED vars

MiscLock == \E t \in Readers : Token_read_lock(t)

\* Token::read line 65, `inner.read_count += 1`: the load.
Token_read_load(t) ==
    /\ reader[t].pc = "locked"
    /\ sample' = [sample EXCEPT !.reader[t].pc = "loaded",
                                !.reader[t].tmp = shared.read_count]
    /\ UNCHANGED vars

MiscLoad == \E t \in Readers : Token_read_load(t)

\* Token::read line 65, `inner.read_count += 1`: the store.
Token_read_store(t) ==
    /\ reader[t].pc = "loaded"
    /\ sample' = [sample EXCEPT !.shared.read_count = reader[t].tmp + 1,
                                !.reader[t].pc = "stored"]
    /\ UNCHANGED vars

MiscStore == \E t \in Readers : Token_read_store(t)

\* Token::read lines 66-67: Ok(0) is returned and the guard `inner` dropped.
Token_read_return(t) ==
    /\ reader[t].pc = "stored"
    /\ sample' = [sample EXCEPT !.shared.mutex = 0, !.reader[t].pc = "idle",
                                !.tally.completed = @ + 1]
    /\ UNCHANGED vars

MiscReturn == \E t \in Readers : Token_read_return(t)

\* DebugFsToken::read lines 86-88: a read at an offset other than 0 returns
\* Ok(0) at once; a read at offset 0 goes on to the lock.
DebugFsToken_read_enter(offset) ==
    /\ rust_miscdev.pc = "loaded"
    /\ dbg.pc = "idle"
    /\ sample' = [sample EXCEPT !.dbg =
                     IF offset # 0
                     THEN [dbg EXCEPT !.res = "Ok", !.len = 0, !.offset = offset]
                     ELSE [dbg EXCEPT !.pc = "lock", !.res = "none", !.len = 0,
                                      !.offset = offset, !.lo = tally.completed]]
    /\ UNCHANGED vars

DebugEnter == \E offset \in {0, MaxReads} : DebugFsToken_read_enter(offset)

\* DebugFsToken::read line 90, `let read_count = shared.inner.lock().read_count`:
\* the guard is a temporary of this statement, taken and dropped within it.
DebugFsToken_read_snapshot ==
    /\ dbg.pc = "lock"
    /\ CanLock(shared)
    /\ sample' = [sample EXCEPT !.dbg.pc = "format", !.dbg.val = shared.read_count,
                                !.dbg.hi = tally.started]
    /\ UNCHANGED vars

\* DebugFsToken::read lines 91-93: the text is formatted (an allocation) and
\* written to the reader's buffer; either can fail.
DebugFsToken_read_write(allocOk, copyOk) ==
    /\ dbg.pc = "format"
    /\ sample' = [sample EXCEPT
                     !.dbg.pc = "idle",
                     !.dbg.res = IF ~allocOk THEN "ENOMEM"
                                 ELSE IF ~copyOk THEN "EFAULT" ELSE "Ok",
                     !.dbg.len = IF allocOk /\ copyOk
                                 THEN 26 + Len(Decimal(dbg.val)) ELSE 0]
    /\ UNCHANGED vars

DebugWrite == \E allocOk, copyOk \in BOOLEAN : DebugFsToken_read_write(allocOk, copyOk)

----------------------------------------------------------------------------
\* The token device of the seq_file sample (samples/rust/rust_seq_file.rs):
\* Token::read and Token::write called concurrently, with the mutex and the
\* condition variable of SharedState.

Threads == 1..MaxThreads

\* SharedStateInner::token_count.
tk_count == tok.token_count
\* Who holds SharedState::inner's mutex (0: nobody).
tk_mutex == tok.mutex
\* The threads asleep on SharedState::state_changed.
tk_waitq == tok.waitq
\* th[t]: the call thread t is in (op), where it stands in it (pc), and
\* whether a signal is pending for it.
tk_th == tok.th
\* The call that returned last: what it was given and what it got.
tk_ret == tok.ret
\* History: calls started, and writes and reads that returned success.
tk_tally == tok.tally

\* A thread that is in no call.
Idle == [pc |-> "idle", op |-> "none", sig |-> FALSE]

\* Mutant: the test is `data.is_empty() && offset != 0`.
ReadReturnsEarly_both(empty, offset) == empty /\ offset # 0

\* Token::read line 73: `if data.is_empty() || offset != 0`.
ReadReturnsEarly(empty, offset) == empty \/ offset # 0

\* Token::read lines 66-76 and Token::write lines 99-105: the call is made. A
\* read that returns early (lines 73-75) is over in this step; any other call
\* goes on to the lock. (What a write was given is looked at only when it
\* returns, and is drawn there.)
Token_call(t, op, empty, offset) ==
    /\ tk_th[t].pc = "idle"
    /\ tk_tally.calls < MaxCalls
    /\ tok' = IF op = "read" /\ ReadReturnsEarly(empty, offset)
              THEN [tok EXCEPT !.ret = [op |-> op, empty |-> empty, offset |-> offset,
                                        res |-> "Ok", n |-> 0],
                               !.tally.calls = @ + 1]
              ELSE [tok EXCEPT !.th[t] = [pc |-> "lock", op |-> op, sig |-> FALSE],
                               !.tally.calls = @ + 1]

TokCall ==
    \/ \E t \in Threads, empty \in BOOLEAN, offset \in {0, 1} :
          Token_call(t, "read", empty, offset)
    \/ \E t \in Threads : Token_call(t, "write", FALSE, 0)

\* Mutex::lock goes on only once nobody holds the mutex.
MutexFree(m) == m = 0

\* Lines 78 and 106, `let mut inner = shared.inner.lock()`, and the lock taken
\* again inside CondVar::wait after a wakeup. After a wakeup, wait returns
\* whether a signal is pending.
Token_lock(t) ==
    /\ tk_th[t].pc \in {"lock", "wake"}
    /\ MutexFree(tk_mutex)
    /\ tok' = [tok EXCEPT !.mutex = t,
                          !.th[t].pc = IF tk_th[t].pc = "lock" THEN "check"
                                       ELSE IF tk_th[t].sig THEN "eintr"
                                       ELSE "woken"]

TokLock == \E t \in Threads : Token_lock(t)

\* The condition of the wait loops: lines 81 and 109.
MustWait(op, count) == IF op = "read" THEN count = 0 ELSE count = MAX_TOKENS

\* Mutant: `if` in place of `while`: after wait returns false the count is
\* changed without being looked at again.
Rechecks_never == FALSE

\* `while`: the condition is evaluated again after wait returns false.
Rechecks == TRUE

\* Lines 81-82 and 109-110: the loop condition, evaluated with the mutex held;
\* if it holds, CondVar::wait puts the thread on the wait queue and releases
\* the mutex, in one step as seen by the other threads.
Token_check(t) ==
    /\ tk_th[t].pc \in {"check", "woken"}
    /\ tok' = IF (tk_th[t].pc = "check" \/ Rechecks) /\ MustWait(tk_th[t].op, tk_count)
              THEN [tok EXCEPT !.th[t].pc = "asleep", !.mutex = 0,
                               !.waitq = @ \cup {t}]
              ELSE [tok EXCEPT !.th[t].pc = "update"]

TokCheck == \E t \in Threads : Token_check(t)

\* Lines 88-89 and 116-117: the count is changed and the guard dropped at the
\* end of the block.
Token_update(t) ==
    /\ tk_th[t].pc = "update"
    /\ tok' = [tok EXCEPT !.token_count = IF tk_th[t].op = "read" THEN @ - 1 ELSE @ + 1,
                          !.mutex = 0,
                          !.th[t].pc = "notify"]

TokUpdate == \E t \in Threads : Token_update(t)

\* Mutant: line 92 is missing, only a write notifies.
NotifiesAfter_write_only(op) == op = "write"

\* Lines 92 and 120: both calls notify once the guard is dropped.
NotifiesAfter(op) == TRUE

\* CondVar::notify_all: the threads it wakes, all that are asleep on the
\* condition variable.
notify_all(q) == q

\* The threads in `woken` leave the wait queue and go for the mutex.
Wake(st, woken) ==
    [st EXCEPT !.waitq = @ \ woken,
               !.th = [u \in DOMAIN st.th |->
                          IF u \in woken THEN [st.th[u] EXCEPT !.pc = "wake"]
                          ELSE st.th[u]]]

\* Lines 92 and 120: `shared.state_changed.notify_all()`.
Token_notify(t) ==
    /\ tk_th[t].pc = "notify"
    /\ tok' = Wake([tok EXCEPT !.th[t].pc = "return"],
                   IF NotifiesAfter(tk_th[t].op) THEN notify_all(tk_waitq) ELSE {})

TokNotify == \E t \in Threads : Token_notify(t)

\* Lines 95-96: the byte is copied to the reader's buffer, which can fail, and
\* Ok(1) returned; line 121: Ok(data.len()), data being empty or not.
Token_return(t, copyOk, empty) ==
    LET me == tk_th[t]
        res == IF me.op = "read" /\ ~copyOk THEN "EFAULT" ELSE "Ok"
        n == IF res # "Ok" \/ (me.op = "write" /\ empty) THEN 0 ELSE 1
    IN /\ me.pc = "return"
       /\ me.op = "read" => ~empty
       /\ me.op = "write" => copyOk
       /\ tok' = [tok EXCEPT
                     !.th[t] = Idle,
                     !.ret = [op |-> me.op, empty |-> empty, offset |-> 0,
                              res |-> res, n |-> n],
                     !.tally.reads_ok = IF me.op = "read" /\ res = "Ok" THEN @ + 1 ELSE @,
                     !.tally.writes_ok = IF me.op = "write" THEN @ + 1 ELSE @]

TokReturn == \E t \in Threads, copyOk, empty \in BOOLEAN : Token_return(t, copyOk, empty)

\* A signal is sent to a thread that is asleep in CondVar::wait, or that was
\* woken and has not yet come back from it: the thread is taken off the wait
\* queue and wait will return true.
Token_signal(t) ==
    /\ tk_th[t].pc \in {"asleep", "wake"}
    /\ ~tk_th[t].sig
    /\ tok' = Wake([tok EXCEPT !.th[t].sig = TRUE], {t} \cap tk_waitq)

TokSignal == \E t \in Threads : Token_signal(t)

\* Mutant: the interrupted call notifies the other waiters on its way out.
EintrWakes_all(q) == q

\* Lines 83 and 111, `return Err(Error::EINTR)`: nobody is notified.
EintrWakes(q) == {}

\* Lines 82-84 and 110-112: wait returned true; the call returns EINTR and the
\* guard is dropped on the way out.
Token_eintr(t) ==
    LET me == tk_th[t]
    IN /\ me.pc = "eintr"
       /\ tok' = Wake([tok EXCEPT
                          !.th[t] = Idle,
                          !.ret = [op |-> me.op, empty |-> FALSE, offset |-> 0,
                                   res |-> "EINTR", n |-> 0],
                          !.mutex = 0],
                      EintrWakes(tk_waitq))

TokEintr == \E t \in Threads : Token_eintr(t)

----------------------------------------------------------------------------
allVars == <<vars, openVars, seqVars, oldVars, sampleVars, tokVars>>

\* What each specification leaves alone.
outsideSpec == <<openVars, seqVars, oldVars, sampleVars, tokVars>>
outsideOpen == <<vars, seqVars, oldVars, sampleVars, tokVars>>
outsideSeq == <<vars, openVars, oldVars, sampleVars, tokVars>>
outsideOld == <<vars, openVars, seqVars, sampleVars, tokVars>>
outsideSample == <<openVars, seqVars, oldVars, tokVars>>
outsideTok == <<vars, openVars, seqVars, oldVars, sampleVars>>

Next ==
    \/ DirCreate /\ UNCHANGED outsideSpec
    \/ DirDrop /\ UNCHANGED outsideSpec
    \/ FileCreate /\ UNCHANGED outsideSpec
    \/ FileDrop /\ UNCHANGED outsideSpec
    \/ ProcCreate /\ UNCHANGED outsideSpec
    \/ ProcDrop /\ UNCHANGED outsideSpec

Spec == Init /\ [][Next]_allVars

\* The debugfs handles alone, without the /proc entries.
NextDebugFs ==
    \/ DirCreate /\ UNCHANGED outsideSpec
    \/ DirDrop /\ UNCHANGED outsideSpec
    \/ FileCreate /\ UNCHANGED outsideSpec
    \/ FileDrop /\ UNCHANGED outsideSpec

SpecDebugFs == Init /\ [][NextDebugFs]_allVars

NextOpen ==
    \/ TypedCreate /\ UNCHANGED outsideOpen
    \/ RawCreate /\ UNCHANGED outsideOpen
    \/ Open /\ UNCHANGED outsideOpen
    \/ Remove /\ UNCHANGED outsideOpen

InitOpen == UnusedDebugFs /\ InitOpenVars /\ UnusedSeq /\ UnusedOld /\ UnusedSample /\ UnusedTok

SpecOpen == InitOpen /\ [][NextOpen]_allVars

NextSeq ==
    \/ Token_write /\ UNCHANGED outsideSeq
    \/ Token_read /\ UNCHANGED outsideSeq
    \/ Start /\ UNCHANGED outsideSeq
    \/ Advance /\ UNCHANGED outsideSeq
    \/ Current /\ UNCHANGED outsideSeq

InitSeq == UnusedDebugFs /\ UnusedOpen /\ InitSeqVars /\ UnusedOld /\ UnusedSample /\ UnusedTok

SpecSeq == InitSeq /\ [][NextSeq]_allVars

NextOld ==
    \/ OldRead /\ UNCHANGED outsideOld
    \/ OldStart /\ UNCHANGED outsideOld

\* State::try_new: Mutex::new(0), and the counter values earlier reads leave.
InitOld ==
    /\ UnusedDebugFs /\ UnusedOpen /\ UnusedSeq /\ UnusedSample /\ UnusedTok
    /\ InitOldRun
    /\ old_count \in CounterSeeds

SpecOld == InitOld /\ [][NextOld]_allVars

NextSample ==
    \/ InitState /\ UNCHANGED outsideSample
    \/ InitName /\ UNCHANGED outsideSample
    \/ InitDir /\ UNCHANGED outsideSample
    \/ InitFile /\ UNCHANGED outsideSample
    \/ InitRegister /\ UNCHANGED outsideSample
    \/ InitDropFile /\ UNCHANGED outsideSample
    \/ SampleDropDir /\ UNCHANGED outsideSample
    \/ SampleExit /\ UNCHANGED outsideSample
    \/ MiscEnter /\ UNCHANGED outsideSample
    \/ MiscLock /\ UNCHANGED outsideSample
    \/ MiscLoad /\ UNCHANGED outsideSample
    \/ MiscStore /\ UNCHANGED outsideSample
    \/ MiscReturn /\ UNCHANGED outsideSample
    \/ DebugEnter /\ UNCHANGED outsideSample
    \/ DebugFsToken_read_snapshot /\ UNCHANGED outsideSample
    \/ DebugWrite /\ UNCHANGED outsideSample

InitSample == InitDebugFs /\ UnusedOpen /\ UnusedSeq /\ UnusedOld /\ InitSampleVars /\ UnusedTok

SpecSample == InitSample /\ [][NextSample]_allVars

\* The steps a thread takes by itself once it is in a call.
TokThread(t) ==
    \/ Token_lock(t)
    \/ Token_check(t)
    \/ Token_update(t)
    \/ Token_notify(t)
    \/ \E copyOk, empty \in BOOLEAN : Token_return(t, copyOk, empty)
    \/ Token_eintr(t)

NextTok ==
    \/ TokCall /\ UNCHANGED outsideTok
    \/ TokLock /\ UNCHANGED outsideTok
    \/ TokCheck /\ UNCHANGED outsideTok
    \/ TokUpdate /\ UNCHANGED outsideTok
    \/ TokNotify /\ UNCHANGED outsideTok
    \/ TokReturn /\ UNCHANGED outsideTok
    \/ TokSignal /\ UNCHANGED outsideTok
    \/ TokEintr /\ UNCHANGED outsideTok

InitTok == UnusedDebugFs /\ UnusedOpen /\ UnusedSeq /\ UnusedOld /\ UnusedSample /\ InitTokVars

SpecTok == InitTok /\ [][NextTok]_allVars
----------------------------------------------------------------------------
\* Vocabulary of the properties.

\* The token device with no signal sent and every thread scheduled fairly: a
\* thread that can take a step of its call for good eventually takes one.
\* Whether and when a new call is made is left open.
NextTokFair ==
    \/ TokCall /\ UNCHANGED outsideTok
    \/ TokLock /\ UNCHANGED outsideTok
    \/ TokCheck /\ UNCHANGED outsideTok
    \/ TokUpdate /\ UNCHANGED outsideTok
    \/ TokNotify /\ UNCHANGED outsideTok
    \/ TokReturn /\ UNCHANGED outsideTok

FairTok == \A t \in Threads : WF_allVars(TokThread(t) /\ UNCHANGED outsideTok)

SpecTokFair == InitTok /\ [][NextTokFair]_allVars /\ FairTok

DebugFsHandles == {h \in Handles : IsDir(h) \/ IsFile(h)}
DebugFsNodes == {n \in Nodes : node[n].kind \in {"dir", "file"}}

\* The handles created with parent = None: the owners of a removal.
TopLevel == {h \in DebugFsHandles : ~CreatedWithParent(h)}

\* The entries above n in the host's tree, and the top of that chain.
RECURSIVE Ancestors(_, _)
Ancestors(nd, n) ==
    IF nd[n].d_parent = null_mut THEN {}
    ELSE {nd[n].d_parent} \cup Ancestors(nd, nd[n].d_parent)

RECURSIVE Root(_, _)
Root(nd, n) == IF nd[n].d_parent = null_mut THEN n ELSE Root(nd, nd[n].d_parent)

CallsBy(h) == {i \in DOMAIN rmCalls : rmCalls[i].by = h}
RemovalsOf(n) == {i \in DOMAIN rmSeq : rmSeq[i].n = n}

\* Every entry was created before the host removed anything: the creates of
\* the run precede its removing drops.
CreatesPrecedeRemovals == \A n \in Nodes : node[n].born = 0

----------------------------------------------------------------------------
\* C1: for creates followed by drops in any order, once every handle created
\* without a parent has been dropped, every debugfs entry the host created has
\* been removed exactly once: as many removals as successful creates, nothing
\* left behind, nothing removed twice.
C1_CreatesBalanceRemovals ==
    (CreatesPrecedeRemovals /\ \A h \in TopLevel : ~handle[h].live) =>
        /\ \A n \in DebugFsNodes :
              /\ ~node[n].present
              /\ node[n].removed = 1
              /\ Cardinality(RemovalsOf(n)) = 1
        /\ Cardinality({i \in DOMAIN rmSeq : rmSeq[i].n \in DebugFsNodes})
              = Cardinality(DebugFsNodes)

\* A tree of three entries, one handle left undropped below the top, all
\* top-level handles dropped.
C1_Witness ==
    /\ CreatesPrecedeRemovals
    /\ \A h \in TopLevel : ~handle[h].live
    /\ Cardinality(DebugFsNodes) >= 3
    /\ \E h \in DebugFsHandles : CreatedWithParent(h) /\ handle[h].live
    /\ \E h \in DebugFsHandles : CreatedWithParent(h) /\ ~handle[h].live

\* C2: dropping a handle that was created with a parent never calls the host's
\* removal; its entry is removed only inside the removal started by the drop of
\* a parentless handle above it.
C2_ChildDropIssuesNoRemoval ==
    /\ \A i \in DOMAIN rmCalls : ~CreatedWithParent(rmCalls[i].by)
    /\ \A i \in DOMAIN rmSeq :
          LET e == rmSeq[i]
          IN (e.n \in DebugFsHandles /\ CreatedWithParent(e.n)) =>
                /\ e.by # e.n
                /\ e.by \in TopLevel
                /\ e.by \in Ancestors(node, e.n)

\* A handle created under a parent has been dropped and its entry is still in
\* the host; another such entry has been removed by its ancestor's drop.
C2_Witness ==
    /\ \E h \in DebugFsHandles :
          CreatedWithParent(h) /\ ~handle[h].live /\ node[h].present
    /\ \E i \in DOMAIN rmSeq : CreatedWithParent(rmSeq[i].n)

\* C3: the drop of a handle created without a parent issues exactly one
\* recursive-removal call, on that handle's own dentry, and no other handle
\* ever issues a removal call on that dentry.
C3_OwnerRemovesOnce ==
    \A h \in TopLevel :
        /\ handle[h].live => CallsBy(h) = {}
        /\ ~handle[h].live =>
              /\ Cardinality(CallsBy(h)) = 1
              /\ \A i \in CallsBy(h) : rmCalls[i].on = handle[h].dentry
        /\ \A i \in DOMAIN rmCalls :
              rmCalls[i].on = handle[h].dentry => rmCalls[i].by = h

\* A parentless directory and a parentless file have both been dropped, and a
\* child handle has been dropped as well.
C3_Witness ==
    /\ \E h \in TopLevel : IsDir(h) /\ ~handle[h].live
    /\ \E h \in TopLevel : IsFile(h) /\ ~handle[h].live
    /\ \E h \in DebugFsHandles : CreatedWithParent(h) /\ ~handle[h].live

\* C4: the drop of a top-level directory removes every entry below it, at any
\* depth, exactly once; and an entry below a directory is removed by the host
\* only in the step that drops its top-level ancestor, never before.
C4_Step ==
    /\ \A h \in TopLevel :
          (IsDir(h) /\ handle[h].live /\ ~handle'[h].live) =>
              \A n \in Subtree(node, h) :
                  /\ node[n].removed = 0
                  /\ node'[n].removed = 1
                  /\ ~node'[n].present
    /\ \A n \in Nodes :
          (node[n].d_parent # null_mut /\ node'[n].removed # node[n].removed) =>
              LET r == Root(node, n)
              IN r \in TopLevel /\ handle[r].live /\ ~handle'[r].live

C4_DescendantsRemovedByAncestorDrop == [][C4_Step]_vars

\* An entry two levels below a top-level directory has been removed.
C4_Witness ==
    \E n \in Nodes :
        /\ node[n].d_parent # null_mut
        /\ node[node[n].d_parent].d_parent # null_mut
        /\ node[n].removed = 1
        /\ node[Root(node, n)].removed = 1

\* C5: children cannot outlive their parent's dentry: no live directory handle
\* created under a parent holds a dentry the host has removed, and no create is
\* issued with a parent dentry that an ancestor's drop removed.
C5_NoDanglingParent ==
    /\ \A h \in LiveDirs :
          handle[h].has_parent => node[handle[h].dentry].present
    /\ last.op \in {"DebugFsDirectory::create", "DebugFsFile::create"} => ~last.stale

\* C6: when a parentless directory is dropped, every entry it holds is removed
\* before the directory's own entry: in the host's removals each child comes
\* before its parent.
C6_ChildBeforeParent ==
    \A i \in DOMAIN rmSeq :
        \A c \in Nodes :
            (node[c].d_parent = rmSeq[i].n /\ node[c].born < i) =>
                \E j \in 1..(i - 1) : rmSeq[j].n = c

\* A file and then the directory that held it have been removed.
C6_Witness ==
    \E i, j \in DOMAIN rmSeq :
        /\ i < j
        /\ node[rmSeq[i].n].kind = "file"
        /\ node[rmSeq[j].n].kind = "dir"
        /\ node[rmSeq[i].n].d_parent = rmSeq[j].n

----------------------------------------------------------------------------
\* Payloads of the file entries.

\* The entry whose slot holds payload p (none if the create failed).
SlotOf(p) == {n \in Nodes : node[n].i_private = p}

\* The top-level handle that owns the entry holding payload p has been dropped.
OwnerDropped(p) == \A n \in SlotOf(p) : ~handle[Root(node, n)].live

\* C7: for every file entry successfully created with a payload, over any
\* sequence of creations and drops, the payload is recovered from its slot at
\* most once, and once the owning top-level handle has been dropped its
\* destructor has run exactly once.
C7_PayloadDroppedOnceAfterOwner ==
    \A p \in Payloads :
        payload[p].outcome = "created" =>
            /\ payload[p].recovered <= 1
            /\ payload[p].drops <= 1
            /\ OwnerDropped(p) => payload[p].drops = 1

\* C8 (as stated): when the drop of a DebugFsFile returns, its payload has been
\* recovered and dropped, whether or not the file was created under a parent.
C8_FileDropDropsPayload ==
    \A h \in Handles :
        (IsFile(h) /\ ~handle[h].live) =>
            /\ payload[node[h].i_private].recovered = 1
            /\ payload[node[h].i_private].drops = 1

\* C8 (amended): the drop of a DebugFsFile created without a parent recovers
\* the payload and drops it exactly once before it returns; the drop of a
\* DebugFsFile created under a parent calls nothing and leaves the payload, the
\* host's entries and the removal history as they were.
C8_Step ==
    \A h \in Handles :
        (IsFile(h) /\ handle[h].live /\ ~handle'[h].live) =>
            LET p == node[h].i_private
            IN IF handle[h].dentry # null_mut
               THEN /\ payload[p].drops = 0
                    /\ payload'[p].recovered = 1
                    /\ payload'[p].drops = 1
                    /\ ~node'[h].present
               ELSE UNCHANGED <<payload, node, rmSeq, rmCalls>>

C8_FileDropByOwnership == [][C8_Step]_vars

\* A parentless file handle has been dropped with its payload destroyed, and a
\* file handle created under a parent has been dropped with its payload still
\* in the slot of a present entry.
C8_Witness ==
    /\ \E h \in TopLevel :
          IsFile(h) /\ ~handle[h].live /\ payload[node[h].i_private].drops = 1
    /\ \E h \in DebugFsHandles :
          /\ IsFile(h) /\ CreatedWithParent(h) /\ ~handle[h].live
          /\ node[h].present
          /\ payload[node[h].i_private].drops = 0

\* C9: when the host rejects a file creation (debugfs_create_file returns an
\* error pointer, proc_create_seq_private returns null) the erased payload has
\* been recovered and dropped exactly once when the error is returned, no
\* handle or entry exists for the attempt, and nothing is ever removed or
\* recovered for it again.
C9_RejectedCreateDropsPayload ==
    /\ Len(handle) = Len(node)
    /\ \A p \in Payloads :
          payload[p].outcome = "rejected" =>
              /\ payload[p].host_called
              /\ payload[p].recovered = 1
              /\ payload[p].drops = 1
              /\ payload[p].owner = "dropped"
              /\ SlotOf(p) = {}
              /\ \A h \in Handles : IsProc(h) => handle[h].data # p
    /\ last.res \in {"Err", "ENOMEM"} /\ last.op # "DebugFsDirectory::create"
          => payload[Len(payload)].outcome \in {"rejected", "oom"}

\* The host has rejected a debugfs file and a /proc entry, and the program has
\* gone on to drop a handle afterwards.
C9_Witness ==
    /\ \E p \in Payloads : payload[p].outcome = "rejected" /\ payload[p].via = "debugfs"
    /\ \E p \in Payloads : payload[p].outcome = "rejected" /\ payload[p].via = "proc"
    /\ \E h \in Handles : ~handle[h].live

\* C10 (as stated): when a boxing fails in DebugFsFile::create, create fails
\* with an out-of-memory error, the host is not called, and the payload goes
\* back to the caller instead of being dropped.
C10_OomReturnsPayload ==
    \A p \in Payloads :
        payload[p].outcome = "oom" =>
            /\ ~payload[p].host_called
            /\ payload[p].owner = "caller"
            /\ payload[p].drops = 0

\* C10 (amended): when a boxing fails in DebugFsFile::create, create fails with
\* an out-of-memory error, the host is not called, no entry or handle is made,
\* and the payload, which create took by value, has been dropped exactly once
\* (never turned into a raw pointer, never recovered).
C10_OomDropsPayload ==
    /\ \A p \in Payloads :
          payload[p].outcome = "oom" =>
              /\ ~payload[p].host_called
              /\ ~payload[p].erased
              /\ payload[p].recovered = 0
              /\ payload[p].drops = 1
              /\ payload[p].owner = "dropped"
              /\ SlotOf(p) = {}
    /\ (last.op = "DebugFsFile::create" /\ last.res = "ENOMEM") =>
          /\ payload[Len(payload)].outcome = "oom"
          /\ ~last.stale

\* A create has just failed with out-of-memory, after an earlier create went
\* through.
C10_Witness ==
    /\ last.op = "DebugFsFile::create" /\ last.res = "ENOMEM"
    /\ payload[Len(payload)].outcome = "oom"
    /\ \E p \in Payloads : payload[p].outcome = "created"

----------------------------------------------------------------------------
\* C11: when the host cannot create a directory, DebugFsDirectory::create
\* returns an error and nothing else happens: no handle is produced, the parent
\* handle and all entries stay as they were, no removal call is issued, and
\* removal calls only ever name dentries the host did return.
C11_Step ==
    /\ (last'.op = "DebugFsDirectory::create" /\ last'.res = "Err") =>
          UNCHANGED <<node, handle, payload, rmCalls, rmSeq>>
    /\ \A i \in DOMAIN rmCalls' :
          rmCalls'[i].on \in 1..Len(node') /\ node'[rmCalls'[i].on].removed >= 1

C11_RejectedDirCreateChangesNothing == [][C11_Step]_vars

\* A directory create under a live parent has just been rejected.
C11_Witness ==
    /\ last.op = "DebugFsDirectory::create" /\ last.res = "Err"
    /\ \E h \in LiveDirs : node[h].present
    /\ rmCalls # <<>>

\* C12: a successful create returns a handle whose ownership flag tells whether
\* a parent was supplied: has_parent is true (a directory) and dentry is None
\* (a file) exactly when the host was called with a parent's dentry, which is
\* then the dentry of a DebugFsDirectory created earlier; without a parent the
\* host is called with the null reference, the entry lands at the root and a
\* file keeps its own dentry.
C12_OwnershipFlagMatchesParent ==
    \A n \in DebugFsNodes :
        LET a == node[n].asked
        IN /\ IsDir(n) => (handle[n].has_parent <=> a # null_mut)
           /\ IsDir(n) => handle[n].dentry = n
           /\ IsFile(n) => (handle[n].dentry = null_mut <=> a # null_mut)
           /\ (IsFile(n) /\ a = null_mut) => handle[n].dentry = n
           /\ a # null_mut => (a \in Handles /\ IsDir(a) /\ handle[a].dentry = a /\ a < n)
           /\ a = null_mut => node[n].d_parent = null_mut

\* A directory and a file created under a parent, below a parentless directory.
C12_Witness ==
    /\ \E h \in DebugFsHandles : IsDir(h) /\ handle[h].has_parent
    /\ \E h \in DebugFsHandles : IsFile(h) /\ handle[h].dentry = null_mut
    /\ \E h \in DebugFsHandles : IsDir(h) /\ ~handle[h].has_parent

----------------------------------------------------------------------------
\* C13: round trip of the payload binding. Whenever an open gets a reference
\* back from OpenAdapter::convert, it is to the value (and of the type) that
\* create was given for that file; and the owning recovery (from_pointer) has
\* happened exactly once for an erased payload whose entry was removed or
\* refused, and not at all while the entry is there.
C13_RoundTrip ==
    /\ opened.res = "ref" =>
          /\ opened.val = dfile[opened.f].given.val
          /\ dfile[opened.f].fops = dfile[opened.f].given.type_id
    /\ \A f \in DFiles :
          LET p == dfile[f].i_private
          IN /\ heap[p].freed = (IF dfile[f].state = "present" THEN 0 ELSE 1)
             /\ heap[heap[p].word].freed = heap[p].freed

\* An open of one file has recovered its value while another file was already
\* removed.
C13_Witness ==
    /\ opened.res = "ref" /\ dfile[opened.f].state = "present"
    /\ \E f \in DFiles : dfile[f].state = "removed"

\* C14: narrowing to a type that differs from the type the payload was erased
\* with never returns a reference: the open ends in panic!() exactly when the
\* vtable's T is not the stored type, and in a reference exactly when it is.
C14_Step ==
    \A f \in DFiles :
        (opened' # opened /\ opened'.f = f) =>
            /\ opened'.res = "panic" <=> dfile[f].fops # dfile[f].given.type_id
            /\ opened'.res = "ref" <=> dfile[f].fops = dfile[f].given.type_id

C14_MismatchPanics == [][C14_Step]_allVars

\* An open of a file whose vtable expects another type has panicked.
C14_Witness ==
    /\ opened.res = "panic"
    /\ dfile[opened.f].fops # dfile[opened.f].given.type_id

----------------------------------------------------------------------------
\* C16: for every cursor of Token's SeqOperations, current agrees with the most
\* recent next: after a next that returned true the following current returns
\* Some(item), and after a next that returned false it returns None.
C16_CurrentAgreesWithNext ==
    seq_ret.op = "current" =>
        /\ cursor[seq_ret.c].after = "true" => seq_ret.some
        /\ cursor[seq_ret.c].after = "false" => ~seq_ret.some

\* C17: for every counter value captured by start, 0 included, next reports
\* exhaustion (returns false) within as many calls as the captured value (and
\* with its first call when the value is 0).
C17_ExhaustedWithinTotal ==
    \A c \in Cursors :
        (cursor[c].nexts >= 1 /\ cursor[c].nexts >= cursor[c].it[1]) =>
            cursor[c].after = "false"

\* C18: once next has returned false on a cursor, current on that cursor
\* returns None, and the cursor stays that way: no later call moves it or
\* makes next return true again.
C18_Step ==
    \A c \in Cursors :
        cursor[c].after = "false" =>
            /\ ~Token_current(cursor[c].it).some
            /\ cursor'[c].after = "false"
            /\ cursor'[c].it = cursor[c].it
            /\ (seq_ret'.op = "current" /\ seq_ret'.c = c) => ~seq_ret'.some

C18_NoneAfterExhaustion == [][C18_Step]_allVars

\* next was called again on an exhausted cursor, and current then asked.
C18_Witness ==
    /\ seq_ret.op = "current" /\ ~seq_ret.some
    /\ cursor[seq_ret.c].after = "false"
    /\ cursor[seq_ret.c].nexts > cursor[seq_ret.c].it[1]
    /\ cursor[seq_ret.c].it[1] >= 2

\* C19: current is idempotent and pure: a call of current changes neither the
\* cursor nor the counter, returns what the cursor's position determines, and a
\* second call straight after the first returns the same.
C19_Step ==
    /\ (seq_ret'.op = "current" /\ seq_ret' # seq_ret) =>
          /\ cursor' = cursor
          /\ token_count' = token_count
          /\ LET r == Token_current(cursor[seq_ret'.c].it)
             IN seq_ret'.some = r.some /\ seq_ret'.item = r.item
    /\ (seq_ret.op = "current" /\ seq_ret'.op = "current" /\ seq_ret'.c = seq_ret.c) =>
          seq_ret' = seq_ret

C19_CurrentIdempotent == [][C19_Step]_allVars

\* current has returned an item of a cursor that next had advanced, while
\* tokens are there.
C19_Witness ==
    /\ seq_ret.op = "current" /\ seq_ret.some /\ seq_ret.item = 2
    /\ cursor[seq_ret.c].after = "true"
    /\ token_count > 0

\* C20: start returns None when the sequence is empty (the counter is 0 when the
\* session starts) and the first cursor position otherwise.
C20_Step ==
    (seq_ret'.op = "start" /\ (seq_ret' # seq_ret \/ cursor' # cursor)) =>
        /\ seq_ret'.some <=> token_count # 0
        /\ seq_ret'.some => cursor'[seq_ret'.c].it = <<token_count, 1>>

C20_StartNoneWhenEmpty == [][C20_Step]_allVars

----------------------------------------------------------------------------
\* The positions a session has been at once next has returned false (start is
\* at 1 and next moves on by one), and those of them where current has an item.
PositionsOf(c) == 1..cursor[c].it[2]
ItemsOf(c) == {k \in PositionsOf(c) : Token_current(<<cursor[c].it[1], k>>).some}

\* C21: the number of items a session produces (positions where current
\* returns Some, from start until next returns false) equals the counter value
\* the session started with.
C21_ItemCountIsCounter ==
    \A c \in Cursors :
        cursor[c].after = "false" => Cardinality(ItemsOf(c)) = cursor[c].it[1]

\* C22: restart law. Every start builds its cursor from the counter as it is
\* then, at the first position, whatever cursors exist already; and what a
\* session yields depends only on that value: two sessions that captured the
\* same value and made the same number of next calls are at the same position
\* with the same answers.
C22_Step ==
    /\ Len(cursor') = Len(cursor) + 1 =>
          cursor'[Len(cursor')] = [it |-> <<token_count, 1>>, nexts |-> 0, after |-> "start"]
    /\ \A c, d \in Cursors :
          (cursor[c].it[1] = cursor[d].it[1] /\ cursor[c].nexts = cursor[d].nexts) =>
              /\ cursor[c] = cursor[d]
              /\ Token_current(cursor[c].it) = Token_current(cursor[d].it)

C22_RestartLaw == [][C22_Step]_allVars

\* A second session was started after the counter changed while the first one
\* had already moved on; the new cursor reflects the new value.
C22_Witness ==
    /\ Len(cursor) = 2
    /\ cursor[1].it[1] # cursor[2].it[1]
    /\ cursor[1].nexts >= 1
    /\ cursor[2] = [it |-> <<token_count, 1>>, nexts |-> 0, after |-> "start"]
    /\ seq_ret.op = "start"

\* C24: sessions are independent: whatever the interleaving, a step changes at
\* most the cursor that next was called on, and leaves every other cursor, and
\* what current answers on it, as it was.
C24_Step ==
    \A d \in Cursors :
        cursor'[d] # cursor[d] =>
            /\ seq_ret'.op = "next" /\ seq_ret'.c = d
            /\ \A e \in Cursors \ {d} :
                  /\ cursor'[e] = cursor[e]
                  /\ Token_current(cursor'[e].it) = Token_current(cursor[e].it)

C24_SessionsIndependent == [][C24_Step]_allVars

\* Two sessions at different positions of the same sequence, the last call a
\* next on one of them.
C24_Witness ==
    /\ Len(cursor) = 2
    /\ cursor[1].it[1] = cursor[2].it[1]
    /\ cursor[1].it[2] # cursor[2].it[2]
    /\ cursor[1].nexts >= 1 /\ cursor[2].nexts >= 1
    /\ seq_ret.op = "next"

\* C25: start, next and current leave the shared counter alone, and next
\* changes no cursor but the one it is given.
C25_Step ==
    (seq_ret' # seq_ret \/ cursor' # cursor) =>
        /\ token_count' = token_count
        /\ seq_ret'.op \in {"start", "next", "current"}
        /\ seq_ret'.op = "next" =>
              \A d \in Cursors \ {seq_ret'.c} : cursor'[d] = cursor[d]

C25_IterationLeavesCounter == [][C25_Step]_allVars

\* A session was started and advanced while tokens were there.
C25_Witness ==
    /\ token_count = 2
    /\ \E c \in Cursors : cursor[c].it[1] = 2 /\ cursor[c].after = "true"
    /\ seq_ret.op = "current"

----------------------------------------------------------------------------
\* C26: mismatched recovery is prevented by construction: for every file made
\* through debugfs_create the payload in the slot has the type the file's
\* dispatch table narrows to, so every open of such a file narrows
\* successfully and never takes the panic branch of convert.
C26_TypedCreateNeverPanics ==
    \A f \in DFiles :
        dfile[f].via = "debugfs_create" =>
            /\ dfile[f].fops = dfile[f].given.type_id
            /\ dfile[f].state = "present" =>
                  /\ Borrow(heap, dfile[f].i_private).type_id = dfile[f].fops
                  /\ OpenAdapter_convert(dfile[f].fops, dfile[f].i_private).res = "ref"
            /\ opened.f = f => opened.res = "ref"

\* A file made through debugfs_create has been opened while a file made with a
\* foreign vtable sits beside it.
C26_Witness ==
    /\ opened.res = "ref"
    /\ dfile[opened.f].via = "debugfs_create"
    /\ \E g \in DFiles : dfile[g].via = "DebugFsFile::create" /\ dfile[g].state = "present"

----------------------------------------------------------------------------
\* C27: per-handle state machine. What a debugfs handle owns (has_parent, the
\* dentry it keeps) is fixed when create returns it and never changes; a
\* dropped handle stays dropped; a drop takes exactly one path (one removal
\* call on the handle's own dentry for an owning handle, no call at all for a
\* handle created under a parent); and no removal call is made on behalf of a
\* handle before or after its drop.
C27_Step ==
    /\ \A i \in DOMAIN rmCalls : ~handle[rmCalls[i].by].live
    /\ \A h \in Handles :
          (handle'[h] # handle[h] /\ ~IsProc(h)) =>
              /\ handle[h].live
              /\ handle'[h] = [handle[h] EXCEPT !.live = FALSE]
              /\ IF CreatedWithParent(h)
                 THEN UNCHANGED <<node, payload, rmCalls, rmSeq>>
                 ELSE rmCalls' = Append(rmCalls, [by |-> h, on |-> handle[h].dentry])
    /\ rmCalls' # rmCalls =>
          /\ Len(rmCalls') = Len(rmCalls) + 1
          /\ SubSeq(rmCalls', 1, Len(rmCalls)) = rmCalls
          /\ LET by == rmCalls'[Len(rmCalls')].by
             IN by \in DebugFsHandles /\ handle[by].live /\ ~handle'[by].live

C27_HandleStateMachine == [][C27_Step]_vars

\* An owning handle and a handle created under a parent have both been
\* dropped, and the program has gone on to create something.
C27_Witness ==
    /\ \E h \in TopLevel : ~handle[h].live
    /\ \E h \in DebugFsHandles \ TopLevel : ~handle[h].live
    /\ last.op \in {"DebugFsDirectory::create", "DebugFsFile::create"}
    /\ last.res = "Ok"

\* C28: a file created under a parent directory stays in the host with its
\* payload alive whether or not its own DebugFsFile handle has been dropped:
\* the handle's drop makes no removal call, the payload is not dropped while
\* the file is there, and the file is only ever removed (its payload dropped,
\* once) by the drop of the parentless directory handle at the top of its tree.
C28_ParentedFileOutlivesHandle ==
    \A n \in DebugFsNodes :
        (IsFile(n) /\ node[n].asked # null_mut) =>
            /\ CallsBy(n) = {}
            /\ node[n].present => payload[node[n].i_private].drops = 0
            /\ ~node[n].present => payload[node[n].i_private].drops = 1
            /\ \A i \in RemovalsOf(n) :
                  LET by == rmSeq[i].by
                  IN /\ by \in TopLevel /\ IsDir(by) /\ ~handle[by].live
                     /\ by = Root(node, n)

\* A file under a directory whose own handle has been dropped: still there,
\* payload alive, parent handle still held.
C28_Witness ==
    \E n \in DebugFsNodes :
        /\ IsFile(n) /\ node[n].asked # null_mut
        /\ ~handle[n].live
        /\ node[n].present
        /\ payload[node[n].i_private].drops = 0
        /\ handle[node[n].asked].live
        /\ last.op = "DebugFsFile::drop"

----------------------------------------------------------------------------
\* C23: rendering clamp in State::start. For every counter value the number
\* written is min(counter, 999), the "at least this many times" template is
\* used exactly when the counter exceeds 999, and the rendered message is no
\* longer than the capacity reserved up front (template length + 4).
C23_RenderingClamp ==
    old_start.res = "Some" =>
        /\ ValueOf(old_start.digits) =
              (IF old_start.of.hi = 0 /\ old_start.of.lo <= 999 THEN old_start.of.lo ELSE 999)
        /\ Decimal(ValueOf(old_start.digits)) = old_start.digits
        /\ old_start.template = "at least this many times" <=>
              (old_start.of.hi > 0 \/ old_start.of.lo > 999)
        /\ old_start.template = "this many times" <=>
              (old_start.of.hi = 0 /\ old_start.of.lo <= 999)
        /\ Len(old_start.digits) <= 3
        /\ old_start.len <= old_start.reserved
        /\ old_start.reserved = TemplateLen(old_start.template) + 4

\* The message for a counter of 1000 has been rendered: clamped form, 999.
C23_Witness ==
    /\ old_start.res = "Some"
    /\ old_start.of = [hi |-> 0, lo |-> 1000]
    /\ old_start.digits = <<9, 9, 9>>
    /\ old_start.template = "at least this many times"
    /\ old_start.len = old_start.reserved

----------------------------------------------------------------------------
\* C29: no leak on any failure path of the sample's init. Whenever init has
\* returned an error, nothing it created is left: every host entry created so
\* far (the directory and, if it got that far, the file) has been removed,
\* once; every handle is dropped; every payload reference handed to
\* debugfs_create has been dropped exactly once; and no device is registered.
C29_NoLeakOnInitFailure ==
    rust_miscdev.pc = "failed" =>
        /\ \A n \in Nodes : ~node[n].present /\ node[n].removed = 1
        /\ \A h \in Handles : ~handle[h].live
        /\ \A p \in Payloads : payload[p].drops = 1
        /\ ~rust_miscdev.dev

\* The registration failed after the directory and the file were created,
\* and init has returned.
C29_Witness ==
    /\ rust_miscdev.pc = "failed"
    /\ rust_miscdev.debugfs_file # 0
    /\ \E n \in Nodes : node[n].kind = "file" /\ node[n].i_private # null_mut

\* C30: read_count is updated only under the payload's mutex, so no increment
\* is lost. A thread between the lock and the return of Token::read holds the
\* mutex; read_count is the number of reads completed plus the one that has
\* stored and not yet returned (so with every reader back, read_count is the
\* number of reads completed); and the value a debugfs read at offset 0 took
\* lies between the number of reads completed when it started and the number
\* started when it took the value. A read at another offset reports nothing.
C30_ReadCountSerialized ==
    /\ \A t \in Readers :
          reader[t].pc \in {"locked", "loaded", "stored"} => shared.mutex = t
    /\ shared.read_count =
          tally.completed + Cardinality({t \in Readers : reader[t].pc = "stored"})
    /\ (\A t \in Readers : reader[t].pc = "idle") => shared.read_count = tally.completed
    /\ (dbg.pc = "format" \/ (dbg.pc = "idle" /\ dbg.offset = 0 /\ dbg.res # "none")) =>
          (dbg.lo <= dbg.val /\ dbg.val <= dbg.hi /\ dbg.hi <= tally.started)
    /\ (dbg.pc = "idle" /\ dbg.offset = 0 /\ dbg.res = "Ok") =>
          dbg.len = 26 + Len(Decimal(dbg.val))
    /\ (dbg.pc = "idle" /\ dbg.offset # 0) => (dbg.res = "Ok" /\ dbg.len = 0)

\* Two reads have completed with a third thread contending, and a debugfs read
\* at offset 0 that overlapped them reported a value strictly between its two
\* bounds.
C30_Witness ==
    /\ tally.completed >= 2
    /\ \A t \in Readers : reader[t].pc = "idle"
    /\ dbg.pc = "idle" /\ dbg.offset = 0 /\ dbg.res = "Ok"
    /\ dbg.lo < dbg.val /\ dbg.val < dbg.hi

----------------------------------------------------------------------------
\* C31: in every reachable state, under every interleaving of concurrent
\* Token::read and Token::write calls, 0 <= token_count <= MAX_TOKENS: a read
\* never takes the count below 0 and a write never takes it above MAX_TOKENS.
C31_TokenCountInRange == 0 <= tk_count /\ tk_count <= MAX_TOKENS

\* A reader that slept was woken by a write, and by the time it holds the mutex
\* again another read has taken the token: the count is 0 when it looks again.
C31_Witness ==
    \E t \in Threads : tk_th[t].pc = "woken" /\ tk_th[t].op = "read" /\ tk_count = 0

\* C32: Token::read called with an empty buffer or a non-zero offset returns
\* Ok(0) in that very step: it does not go to the mutex or the wait loop, leaves
\* token_count as it was and wakes nobody (the wait queue and every thread's
\* position stay as they were).
C32_Step ==
    \A t \in Threads, empty \in BOOLEAN, offset \in {0, 1} :
        ((empty \/ offset # 0) /\ Token_call(t, "read", empty, offset)) =>
            /\ tk_ret' = [op |-> "read", empty |-> empty, offset |-> offset,
                          res |-> "Ok", n |-> 0]
            /\ tk_count' = tk_count
            /\ tk_mutex' = tk_mutex
            /\ tk_waitq' = tk_waitq
            /\ tk_th' = tk_th

C32_EarlyReadIsInert == [][C32_Step]_allVars

\* A read at a non-zero offset has returned 0 while the other thread is asleep
\* on the condition variable with the count at 0.
C32_Witness ==
    /\ tk_ret.op = "read" /\ tk_ret.res = "Ok" /\ tk_ret.n = 0
    /\ ~tk_ret.empty /\ tk_ret.offset # 0
    /\ tk_waitq # {} /\ tk_count = 0
    /\ \A t \in Threads : t \notin tk_waitq => tk_th[t].pc = "idle"

\* C34: a blocked Token::read or Token::write that a signal interrupts while it
\* waits returns EINTR and nothing else: once the signal is pending the call
\* can only take the mutex again and return, and the returning step leaves
\* token_count and the tallies of successful calls as they were, releases the
\* mutex the call held, and wakes nobody (the wait queue and every other
\* thread stay as they were).
C34_Step ==
    \A t \in Threads :
        /\ (tk_th[t].sig /\ tk_th'[t] # tk_th[t]) =>
              /\ tk_th[t].pc \in {"wake", "eintr"}
              /\ tk_th'[t] \in {[tk_th[t] EXCEPT !.pc = "eintr"], Idle}
              /\ tk_count' = tk_count
        /\ (tk_th[t].pc = "eintr" /\ tk_th'[t] # tk_th[t]) =>
              /\ tk_th'[t] = Idle
              /\ tk_ret' = [op |-> tk_th[t].op, empty |-> FALSE, offset |-> 0,
                            res |-> "EINTR", n |-> 0]
              /\ tk_count' = tk_count
              /\ tk_tally' = tk_tally
              /\ tk_mutex = t /\ tk_mutex' = 0
              /\ tk_waitq' = tk_waitq
              /\ \A u \in Threads \ {t} : tk_th'[u] = tk_th[u]

C34_InterruptedCallIsInert == [][C34_Step]_allVars

\* A write blocked at MAX_TOKENS has returned EINTR while the other thread, a
\* writer too, is still asleep; the count is still MAX_TOKENS and the mutex is
\* free.
C34_Witness ==
    /\ tk_ret.op = "write" /\ tk_ret.res = "EINTR"
    /\ tk_count = MAX_TOKENS /\ tk_mutex = 0
    /\ \E u \in Threads : u \in tk_waitq /\ tk_th[u].op = "write"
    /\ \E t \in Threads : tk_th[t].pc = "idle"

\* A state in which no thread is inside a call.
Quiescent == \A t \in Threads : tk_th[t].pc = "idle"

\* C35: token conservation: in every quiescent state token_count equals the
\* number of Token::write calls that returned success minus the number of
\* Token::read calls that returned success (one byte); a read that returned an
\* error has consumed no token.
C35_TokenConservation ==
    Quiescent => tk_count = tk_tally.writes_ok - tk_tally.reads_ok

\* C36: a cursor snapshots the counter at start. The total a cursor carries
\* never changes once start has made it; a step that changes token_count (a
\* concurrent read or write) leaves every cursor, and with it what next and
\* current give on it, as it was; and next on a cursor gives what its own
\* total and position determine, whatever token_count is by then. So the
\* positions at which the session has an item are fixed at start.
C36_Step ==
    /\ Len(cursor') >= Len(cursor)
    /\ \A c \in Cursors : cursor'[c].it[1] = cursor[c].it[1]
    /\ token_count' # token_count =>
          /\ cursor' = cursor
          /\ seq_ret' = seq_ret
          /\ \A c \in Cursors :
                /\ Token_next(cursor'[c].it) = Token_next(cursor[c].it)
                /\ Token_current(cursor'[c].it) = Token_current(cursor[c].it)
    /\ \A c \in Cursors :
          cursor'[c] # cursor[c] =>
              /\ seq_ret'.op = "next" /\ seq_ret'.c = c
              /\ seq_ret'.some = (cursor[c].it[1] # cursor[c].it[2])
              /\ cursor'[c].it = Token_next(cursor[c].it).it

C36_CursorSnapshotsCounter == [][C36_Step]_allVars

\* The first session started at one count and the second at another, so the
\* counter changed during the first session; after that next was called on the
\* first cursor and said there is more, while the counter differs from the
\* total the first cursor carries.
C36_Witness ==
    /\ Len(cursor) = 2
    /\ cursor[1].it[1] # cursor[2].it[1]
    /\ token_count # cursor[1].it[1]
    /\ seq_ret.op = "next" /\ seq_ret.c = 1 /\ seq_ret.some

\* Thread t is inside CondVar::wait and the condition it waits on is false.
WaitsInVain(t) ==
    /\ tk_th[t].pc \in {"asleep", "wake"}
    /\ ~MustWait(tk_th[t].op, tk_count)

\* C33 as stated: with fair scheduling and no signal, a reader blocked in
\* Token::read returns once a write has made token_count positive, and a
\* writer blocked in Token::write returns once a read has taken token_count
\* below MAX_TOKENS.
C33_BlockedCallReturns ==
    \A t \in Threads : WaitsInVain(t) ~> (tk_th[t].pc = "idle")

\* C33: no lost wakeup. With fair scheduling and no signal, a thread that is
\* inside wait while its condition is false eventually holds the mutex again
\* and looks at the count: it then either goes on to return, or finds its
\* condition true again (another call got to the count first) and waits on;
\* no thread stays asleep for ever while its condition is false.
C33_NoLostWakeup ==
    \A t \in Threads :
        WaitsInVain(t) ~>
            \/ tk_th[t].pc \in {"update", "notify", "return", "idle"}
            \/ tk_th[t].pc = "asleep" /\ MustWait(tk_th[t].op, tk_count)

\* A writer that slept at MAX_TOKENS holds the mutex again after a read took a
\* token and notified, and finds room for its token.
C33_Witness ==
    \E t \in Threads :
        /\ tk_th[t].pc = "woken" /\ tk_th[t].op = "write"
        /\ tk_count = MAX_TOKENS - 1

====
